---- MODULE Spec2Model ----
(***************************************************************************)
(* Model of crownstone_uart.core.uart.UartManager (connection supervisor)  *)
(* and crownstone_uart.core.uart.UartParser (frame dispatcher).            *)
(*                                                                         *)
(* UartManager is an asyncio state machine.  A model state is a state of   *)
(* the event loop between two callbacks: every action below is the code a  *)
(* coroutine runs from one suspension point (await of starting(),          *)
(* handshake(), stop(), sleep(1), isAlive(), or task start) to the next.   *)
(***************************************************************************)
EXTENDS Integers, Sequences, FiniteSets, TLC

VARIABLES
    port,             \* UartManager.port (None or a device identifier)
    baudRate,         \* UartManager.baudRate
    running,          \* UartManager.running
    availablePorts,   \* UartManager._availablePorts (sequence of devices)
    attemptingIndex,  \* UartManager._attemptingIndex
    uartBridge,       \* UartManager._uartBridge (None or index in bridges)
    ready,            \* UartManager.ready
    bridges,          \* the UartBridge objects constructed since the last
                      \* enumeration, in order, and any older one still started
    pc,               \* where the initialize/reset call chain is suspended
    setupPort,        \* setupConnection's parameter port of the suspended call
    setupHandshake,   \* setupConnection's parameter handshake
    tracker,          \* the trackConnection task: none, scheduled, waiting
    trackBridge,      \* the bridge whose isAlive() trackConnection awaits
    resetTask,        \* the reset() task trackConnection scheduled
    initArg,          \* the arguments of the latest call of initialize, by
                      \* the caller or by the manager itself
    cycle,            \* how the current discovery cycle began: "none" before
                      \* initialize, "noport" by initialize(), "port" by
                      \* initialize(port), "reset" by a re-enumeration
    raised,           \* an exception left initialize, stop or a task
    lastEvent,        \* the last step the manager or its environment took
    frameCount,       \* UartParser: number of values delivered to parse
    bus,              \* the topics emitted on UartEventBus, with the number of
                      \* the frame that caused each, in order of emission
    lastFrame,        \* the value given to the latest call of parse
    lastEmitted,      \* the events (topic, value) the latest call emitted
    lastRaised,       \* the exception that left the latest call of parse
    lastCaught,       \* the exception handleUartMessage caught and logged
                      \* during the latest call of parse
    lastPrinted       \* what the latest call printed on the console

mvars == <<port, baudRate, running, availablePorts, attemptingIndex,
           uartBridge, ready, bridges, pc, setupPort, setupHandshake,
           tracker, trackBridge, resetTask, initArg, cycle, raised,
           lastEvent>>

pvars == <<frameCount, bus, lastFrame, lastEmitted, lastRaised, lastCaught,
          lastPrinted>>

vars == <<mvars, pvars>>

----------------------------------------------------------------------------
(* Bounds *)

\* number of distinct serial devices that can be enumerated
NumDevices == 3

(* Program constants *)

\* the default of initialize's baudrate parameter
DefaultBaudRate == 230400

None == 0
Devices == 1..NumDevices
\* the baud rates a caller passes to initialize: the default and another
BaudRates == {DefaultBaudRate, 115200}

RECURSIVE Listing(_)
\* the devices of S as a list, in the order the system lists them
Listing(S) ==
    IF S = {} THEN <<>>
    ELSE LET d == CHOOSE x \in S : \A y \in S : x <= y
         IN  <<d>> \o Listing(S \ {d})

\* list(list_ports.comports()): the devices plugged in at the moment of
\* the call (hot-plug: any subset of Devices, the empty one included).
\* The code uses a list by position and compares its devices only with the
\* port argument, so one listing order per set of devices is modelled.
comports == { Listing(S) : S \in SUBSET Devices }

----------------------------------------------------------------------------
(* The manager's fields and task positions as one record, so that the      *)
(* methods can be written as functions from state to state and composed    *)
(* the way the code calls them.                                            *)

Self ==
    [port |-> port, baudRate |-> baudRate, running |-> running,
     availablePorts |-> availablePorts, attemptingIndex |-> attemptingIndex,
     uartBridge |-> uartBridge, ready |-> ready, bridges |-> bridges,
     pc |-> pc, setupPort |-> setupPort, setupHandshake |-> setupHandshake,
     tracker |-> tracker, trackBridge |-> trackBridge,
     resetTask |-> resetTask, initArg |-> initArg, cycle |-> cycle,
     raised |-> raised]

Becomes(s, ev) ==
    /\ port' = s.port
    /\ baudRate' = s.baudRate
    /\ running' = s.running
    /\ availablePorts' = s.availablePorts
    /\ attemptingIndex' = s.attemptingIndex
    /\ uartBridge' = s.uartBridge
    /\ ready' = s.ready
    /\ bridges' = s.bridges
    /\ pc' = s.pc
    /\ setupPort' = s.setupPort
    /\ setupHandshake' = s.setupHandshake
    /\ tracker' = s.tracker
    /\ trackBridge' = s.trackBridge
    /\ resetTask' = s.resetTask
    /\ initArg' = s.initArg
    /\ cycle' = s.cycle
    /\ raised' = s.raised
    /\ lastEvent' = ev
    /\ UNCHANGED pvars

----------------------------------------------------------------------------
(* UartBridge, the transport: not part of the sources at hand.  A bridge   *)
(* is started by start(), stopped by stop()/stop_sync(), and lost when the *)
(* link drops; isAlive() resolves once it is no longer started.            *)

\* UartBridge(port, baudRate) followed by start()
NewBridge(p, b) == [port |-> p, baud |-> b, st |-> "started", hs |-> "none"]

\* UartBridge.stop() / stop_sync(): idempotent teardown of bridge i of brs
BridgeStop(brs, i) == [brs EXCEPT ![i].st = "stopped"]

\* what is left of the bridges once the manager drops its reference at a
\* reset: a bridge that is no longer started is garbage, one that is still
\* started keeps running
Collect(brs) == SelectSeq(brs, LAMBDA b : b.st = "started")

\* the bridges that are started and neither stopped nor lost
Live(brs) == { i \in 1..Len(brs) : brs[i].st = "started" }

----------------------------------------------------------------------------
(* UartManager *)

\* setupConnection, lines 72-74: construct and start the bridge, then
\* suspend in starting()
setupConnection(s, p, h) ==
    [s EXCEPT !.bridges = Append(s.bridges, NewBridge(p, s.baudRate)),
              !.uartBridge = Len(s.bridges) + 1,
              !.setupPort = p,
              !.setupHandshake = h,
              !.pc = "starting"]

\* _attemptConnection: index into _availablePorts (0-based in the code);
\* an index out of range raises IndexError
attemptConnection(s, index, h) ==
    IF index < Len(s.availablePorts)
    THEN setupConnection(s, s.availablePorts[index + 1], h)
    ELSE [s EXCEPT !.raised = TRUE, !.pc = "done"]

\* initializeTail with > for >= at line 58
initializeTailOffByOne(s) ==
    IF s.port = None
    THEN IF s.attemptingIndex > Len(s.availablePorts)
         THEN [s EXCEPT !.pc = "sleeping"]
         ELSE attemptConnection(s, s.attemptingIndex, TRUE)
    ELSE [s EXCEPT !.pc = "done"]

\* initialize, lines 57-63: the part after the port argument is handled
initializeTail(s) ==
    IF s.port = None
    THEN IF s.attemptingIndex >= Len(s.availablePorts)
         THEN [s EXCEPT !.pc = "sleeping"]
         ELSE attemptConnection(s, s.attemptingIndex, TRUE)
    ELSE [s EXCEPT !.pc = "done"]

\* the 0-based position of the first candidate whose device is p
IndexOf(avail, p) ==
    (CHOOSE i \in 1..Len(avail) :
        /\ avail[i] = p
        /\ \A j \in 1..(i - 1) : avail[j] # p) - 1

\* initialize that skips the handshake also for a port not found (line 49
\* with handshake False)
initializeNeverHandshakes(s, p, b) ==
    LET s1 == [s EXCEPT !.baudRate = b, !.ready = FALSE,
                        !.initArg = [called |-> TRUE, port |-> p,
                                     baud |-> b]]
    IN
    IF p # None
    THEN IF \E i \in 1..Len(s1.availablePorts) : s1.availablePorts[i] = p
         THEN LET s2 == [s1 EXCEPT !.attemptingIndex =
                                       IndexOf(s1.availablePorts, p)]
              IN  attemptConnection(s2, s2.attemptingIndex, FALSE)
         ELSE setupConnection(s1, p, FALSE)
    ELSE initializeTail(s1)

\* initialize(port, baudrate), from its start to its first suspension
initialize(s, p, b) ==
    LET s1 == [s EXCEPT !.baudRate = b, !.ready = FALSE,
                        !.initArg = [called |-> TRUE, port |-> p,
                                     baud |-> b]]
    IN
    IF p # None
    THEN IF \E i \in 1..Len(s1.availablePorts) : s1.availablePorts[i] = p
         THEN LET s2 == [s1 EXCEPT !.attemptingIndex =
                                       IndexOf(s1.availablePorts, p)]
              IN  attemptConnection(s2, s2.attemptingIndex, FALSE)
         ELSE setupConnection(s1, p, TRUE)
    ELSE initializeTail(s1)

\* reset(): clear cursor, candidates, bridge and port, then initialize();
\* ports is what list_ports.comports() returns this time
reset(s, ports) ==
    initialize([s EXCEPT !.attemptingIndex = 0,
                         !.availablePorts = ports,
                         !.uartBridge = None,
                         !.bridges = Collect(s.bridges),
                         !.cycle = "reset",
                         !.port = None],
               None, DefaultBaudRate)

\* stop without the test of line 31: stop_sync() on None raises
stopUnguarded(s) ==
    LET s1 == [s EXCEPT !.running = FALSE] IN
    IF s1.uartBridge # None
    THEN [s1 EXCEPT !.bridges = BridgeStop(s1.bridges, s1.uartBridge)]
    ELSE [s1 EXCEPT !.raised = TRUE]

\* stop()
stop(s) ==
    LET s1 == [s EXCEPT !.running = FALSE] IN
    IF s1.uartBridge # None
    THEN [s1 EXCEPT !.bridges = BridgeStop(s1.bridges, s1.uartBridge)]
    ELSE s1

\* setupConnection, lines 85-89: the connection is established.  Only
\* initialize's branch for a port found among the candidates calls with
\* handshake = False, and it goes on at line 54 when this returns; every
\* other caller returns at once.
setupSuccess(s) ==
    LET s1 == [s EXCEPT !.port = s.setupPort,
                        !.ready = TRUE,
                        !.tracker = "scheduled"]
    IN  IF s1.setupHandshake THEN [s1 EXCEPT !.pc = "done"]
        ELSE initializeTail(s1)

\* setupFailure with the cursor left where it was (line 81 dropped)
setupFailureSameIndex(s) ==
    [s EXCEPT !.ready = FALSE, !.pc = "stopping"]

\* setupConnection, lines 80-83: the handshake failed; suspend in stop()
setupFailure(s) ==
    [s EXCEPT !.attemptingIndex = s.attemptingIndex + 1,
              !.ready = FALSE,
              !.pc = "stopping"]

\* setupConnection, lines 75-78, after starting() returned
afterStarting(s) ==
    IF s.setupHandshake THEN [s EXCEPT !.pc = "handshake"]
    ELSE setupSuccess(s)

\* afterHandshake with the test of line 80 lost: every handshake counts
afterHandshakeAlways(s, success) ==
    setupSuccess([s EXCEPT !.bridges[s.uartBridge].hs =
                               IF success THEN "ok" ELSE "failed"])

\* setupConnection, lines 78-89, after handshake() returned
afterHandshake(s, success) ==
    LET s1 == [s EXCEPT !.bridges[s.uartBridge].hs =
                            IF success THEN "ok" ELSE "failed"]
    IN  IF ~success THEN setupFailure(s1) ELSE setupSuccess(s1)

\* afterStop that starts again at the first candidate
afterStopRewind(s) ==
    initialize([s EXCEPT !.bridges = BridgeStop(s.bridges, s.uartBridge),
                         !.attemptingIndex = 0],
               None, DefaultBaudRate)

\* afterStop with the failed bridge left running (line 83 dropped)
afterStopLeak(s) == initialize(s, None, DefaultBaudRate)

\* afterStop that returns instead of re-entering initialize (line 84
\* dropped)
afterStopNoRetry(s) ==
    [s EXCEPT !.bridges = BridgeStop(s.bridges, s.uartBridge), !.pc = "done"]

\* setupConnection, lines 83-84, after the bridge's stop() returned
afterStop(s) ==
    initialize([s EXCEPT !.bridges = BridgeStop(s.bridges, s.uartBridge)],
               None, DefaultBaudRate)

\* trackConnection, line 93: evaluate self._uartBridge and await isAlive()
trackConnectionStart(s) ==
    IF s.uartBridge = None
    THEN [s EXCEPT !.tracker = "none", !.raised = TRUE]
    ELSE [s EXCEPT !.tracker = "waiting", !.trackBridge = s.uartBridge]

\* trackConnectionResume with the test of running (line 94) dropped
trackConnectionResumeAlways(s) ==
    [s EXCEPT !.tracker = "none", !.trackBridge = None,
              !.resetTask = "scheduled"]

\* trackConnection, lines 94-95, after isAlive() resolved
trackConnectionResume(s) ==
    LET s1 == [s EXCEPT !.tracker = "none", !.trackBridge = None] IN
    IF s1.running THEN [s1 EXCEPT !.resetTask = "scheduled"] ELSE s1

\* is_ready()
is_ready(s) == s.ready

----------------------------------------------------------------------------
(* Actions: one per event-loop callback *)

\* the caller awaits initialize(port, baudrate)
Initialize ==
    /\ pc = "idle"
    /\ \E p \in Devices \cup {None}, b \in BaudRates :
          Becomes(initialize([Self EXCEPT
                                 !.cycle = IF p = None THEN "noport"
                                           ELSE "port"],
                             p, b),
                  "initialize")

\* starting() returns
Started ==
    /\ pc = "starting"
    /\ Becomes(afterStarting(Self), "started")

\* handshake() returns success or failure
HandshakeDone ==
    /\ pc = "handshake"
    /\ \E success \in BOOLEAN :
          Becomes(afterHandshake(Self, success), "handshake")

\* the failed bridge's stop() returns and initialize() is re-entered
StopDone ==
    /\ pc = "stopping"
    /\ Becomes(afterStop(Self), "stopDone")

\* sleep(1) returns and reset() runs
SleepDone ==
    /\ pc = "sleeping"
    /\ \E ports \in comports :
          Becomes(reset(Self, ports), "backoffReset")

\* the trackConnection task starts
TrackStart ==
    /\ tracker = "scheduled"
    /\ Becomes(trackConnectionStart(Self), "trackStart")

\* isAlive() resolves: the tracked bridge is no longer started
TrackResume ==
    /\ tracker = "waiting"
    /\ bridges[trackBridge].st # "started"
    /\ Becomes(trackConnectionResume(Self), "trackResume")

\* the reset() task that trackConnection scheduled runs
ResetRun ==
    /\ resetTask = "scheduled"
    /\ \E ports \in comports :
          Becomes(reset([Self EXCEPT !.resetTask = "none"], ports),
                  "trackReset")

\* the caller calls stop(), for the first time or again
Stop ==
    \E again \in {~running} :
        Becomes(stop(Self), IF again THEN "stopAgain" ELSE "stop")

\* the environment: the link of a started bridge is lost
LinkLost ==
    \E i \in 1..Len(bridges) :
        /\ bridges[i].st = "started"
        /\ Becomes([Self EXCEPT !.bridges[i].st = "lost"], "linkLost")

ManagerInit ==
    /\ port = None
    /\ baudRate = DefaultBaudRate
    /\ running = TRUE
    /\ availablePorts \in comports
    /\ attemptingIndex = 0
    /\ uartBridge = None
    /\ ready = FALSE
    /\ bridges = <<>>
    /\ pc = "idle"
    /\ setupPort = None
    /\ setupHandshake = TRUE
    /\ tracker = "none"
    /\ trackBridge = None
    /\ resetTask = "none"
    /\ initArg = [called |-> FALSE, port |-> None, baud |-> DefaultBaudRate]
    /\ cycle = "none"
    /\ raised = FALSE
    /\ lastEvent = "init"

\* UartParser.__init__: nothing parsed yet
ParserInit ==
    /\ frameCount = 0
    /\ bus = <<>>
    /\ lastFrame = [isWrapper |-> FALSE]
    /\ lastEmitted = <<>>
    /\ lastRaised = "none"
    /\ lastCaught = "none"
    /\ lastPrinted = <<>>

Init == ManagerInit /\ ParserInit

Next ==
    \/ Initialize
    \/ Started
    \/ HandshakeDone
    \/ StopDone
    \/ SleepDone
    \/ TrackStart
    \/ TrackResume
    \/ ResetRun
    \/ Stop
    \/ LinkLost

Spec == Init /\ [][Next]_vars

\* The event loop runs every callback that is ready: a started task gets
\* its first step, and starting(), handshake(), the bridge's stop(),
\* sleep(1) and a resolved isAlive() each return to the coroutine awaiting
\* them.  Nothing obliges the caller to call initialize or stop, or the
\* link to drop.
Fairness ==
    /\ WF_vars(Started)
    /\ WF_vars(HandshakeDone)
    /\ WF_vars(StopDone)
    /\ WF_vars(SleepDone)
    /\ WF_vars(TrackStart)
    /\ WF_vars(TrackResume)
    /\ WF_vars(ResetRun)

FairSpec == Spec /\ Fairness

\* one chain at a time: the tasks of the liveness watch run only while the
\* initialize/reset chain is not suspended
OneChain ==
    /\ (tracker # "none" \/ resetTask # "none") => pc = "done"
    /\ ~(tracker # "none" /\ resetTask # "none")

----------------------------------------------------------------------------
(* UartParser *)

\* number of values delivered to parse in one run
MaxFrames == 2

\* UartWrapperPacket.PROTOCOL_MAJOR: the supported major version
PROTOCOL_MAJOR == 1

\* UartTypes.UartMessageType
UartMessageType == [UART_MESSAGE |-> 0, ENCRYPTED_UART_MESSAGE |-> 128]

\* UartTypes.UartRxType: the opcodes of received messages (16 bits)
UartRxType ==
    [HELLO |-> 0, SESSION_NONCE |-> 1, HEARTBEAT |-> 2, STATUS |-> 3,
     RESULT_PACKET |-> 10,
     ERR_REPLY_PARSING_FAILED |-> 9900, ERR_REPLY_STATUS |-> 9901,
     ERR_REPLY_SESSION_NONCE_MISSING |-> 9902,
     ERR_REPLY_DECRYPTION_FAILED |-> 9903,
     UART_MESSAGE |-> 10000, SESSION_NONCE_MISSING |-> 10001,
     OWN_SERVICE_DATA |-> 10002, PRESENCE_CHANGE |-> 10004,
     FACTORY_RESET |-> 10005, BOOTED |-> 10006, HUB_DATA |-> 10007,
     MESH_SERVICE_DATA |-> 10102, EXTERNAL_STATE_PART_0 |-> 10103,
     EXTERNAL_STATE_PART_1 |-> 10104, MESH_RESULT |-> 10105,
     MESH_ACK_ALL_RESULT |-> 10106, RSSI_PING_MESSAGE |-> 10107,
     ASSET_MAC_RSSI_REPORT |-> 10108, ASSET_ID_RSSI_REPORT |-> 10110,
     LOG |-> 10200, LOG_ARRAY |-> 10201,
     INTERNAL_EVENT |-> 40000, MESH_CMD_TIME |-> 40101,
     MESH_PROFILE_LOCATION |-> 40102,
     MESH_SET_BEHAVIOUR_SETTINGS |-> 40103,
     MESH_TRACKED_DEVICE_REGISTER |-> 40104,
     MESH_TRACKED_DEVICE_TOKEN |-> 40105, MESH_SYNC_REQUEST |-> 40106,
     MESH_TRACKED_DEVICE_HEARTBEAT |-> 40120,
     ADVERTISING_ENABLED |-> 50000, MESH_ENABLED |-> 50001,
     CROWNSTONE_ID |-> 50002, MAC_ADDRESS |-> 50003,
     ADC_CONFIG |-> 50100, ADC_RESTART |-> 50101,
     POWER_LOG_CURRENT |-> 50102, POWER_LOG_VOLTAGE |-> 50103,
     POWER_LOG_FILTERED_CURRENT |-> 50104,
     POWER_LOG_FILTERED_VOLTAGE |-> 50105, POWER_LOG_POWER |-> 50106,
     ASCII_LOG |-> 50200, FIRMWARESTATE |-> 50201]

\* the opcodes the handler names
KnownOpCodes == { UartRxType[n] : n \in DOMAIN UartRxType }

\* the four named error replies
NamedErrorReplies ==
    {UartRxType.ERR_REPLY_PARSING_FAILED, UartRxType.ERR_REPLY_STATUS,
     UartRxType.ERR_REPLY_SESSION_NONCE_MISSING,
     UartRxType.ERR_REPLY_DECRYPTION_FAILED}

\* opcodes no name stands for: below, inside and above the error-reply
\* range, between named codes, and the largest 16-bit value
UnknownOpCodes == {5, 9899, 9904, 9950, 9999, 10003, 30000, 65535}

\* the opcodes of the messages delivered
OpCodes == KnownOpCodes \cup UnknownOpCodes

\* the payloads of the messages delivered: empty, two bytes with one above
\* the ASCII range, six bytes (an address)
MessagePayloads ==
    {<<>>, <<7, 200>>, <<1, 2, 3, 4, 5, 6>>}

\* a message as the bytes of a wrapper's payload: opcode (16 bits, low
\* byte first), then the message's payload
Encode(opCode, payload) == <<opCode % 256, opCode \div 256>> \o payload

\* the payloads of the wrappers delivered: too short for a message, or a
\* message
WrapperPayloads ==
    {<<>>, <<7>>}
    \cup { Encode(o, d) : o \in OpCodes, d \in MessagePayloads }

\* the payloads delivered in wrappers that parse drops for their header
DroppedPayloads ==
    {<<>>,
     Encode(UartRxType.HELLO, <<>>),
     Encode(UartRxType.UART_MESSAGE, <<7, 200>>),
     Encode(UartRxType.ERR_REPLY_STATUS, <<7, 200>>)}

\* the header fields of the wrappers delivered
Majors == {PROTOCOL_MAJOR, PROTOCOL_MAJOR + 1}
MessageTypes ==
    {UartMessageType.UART_MESSAGE, UartMessageType.ENCRYPTED_UART_MESSAGE, 1}

\* a UartWrapperPacket
Wrapper(major, type, payload) ==
    [isWrapper |-> TRUE, protocolMajor |-> major, protocolMinor |-> 0,
     messageType |-> type, payload |-> payload]

\* the values delivered to parse: wrappers of the supported version and
\* the plain type with every payload, wrappers of every other header with
\* the payloads above, and a value of another type
Frames ==
    { Wrapper(PROTOCOL_MAJOR, UartMessageType.UART_MESSAGE, d) :
        d \in WrapperPayloads }
    \cup { Wrapper(h[1], h[2], d) :
             h \in (Majors \X MessageTypes)
                     \ {<<PROTOCOL_MAJOR, UartMessageType.UART_MESSAGE>>},
             d \in DroppedPayloads }
    \cup {[isWrapper |-> FALSE]}

\* UartMessagePacket.parse(data): opcode from the first two bytes, the rest
\* is the payload; False when there are fewer than two bytes
UartMessagePacket_parse(data) ==
    IF Len(data) < 2
    THEN [ok |-> FALSE, opCode |-> 0, payload |-> <<>>]
    ELSE [ok |-> TRUE,
          opCode |-> data[1] + 256 * data[2],
          payload |-> SubSeq(data, 3, Len(data))]

\* the outcome of running a piece of the parser: the events emitted in
\* order, the exception that ended it ("none" if it returned), and what
\* was printed
Outcome(emits, exc, printed) ==
    [emits |-> emits, exc |-> exc, printed |-> printed, caught |-> "none"]

\* a variant of Silent: the branch reports on the bus what it logs
SilentOnLogTopic ==
    {Outcome(<<[topic |-> "UartTopics.log", value |-> <<>>]>>, "none", <<>>)}

\* a branch of the handler that emits nothing
Silent == {Outcome(<<>>, "none", <<>>)}

\* a collaborator that decodes the payload raises: a CrownstoneException
\* or another exception
DecoderRaises ==
    { Outcome(<<>>, e, <<>>) : e \in {"CrownstoneException", "Error"} }

\* UartEventBus.emit(topic, value) for a typed topic: the event is
\* delivered, and emit returns or a subscriber's exception leaves it
Emit(topic, value) ==
    { Outcome(<<[topic |-> topic, value |-> value]>>, e, <<>>) :
        e \in {"none", "CrownstoneException", "Error"} }

\* a variant of DecodeAndEmit: the raw bytes are emitted, not decoded
DecodeAndEmitRaw(decoder, topic, payload) ==
    DecoderRaises \cup Emit(topic, payload)

\* a variant of DecodeAndEmit: the decoded value is emitted twice
DecodeAndEmitTwice(decoder, topic, payload) ==
    DecoderRaises
    \cup { Outcome(r.emits \o r.emits, r.exc, r.printed) :
             r \in Emit(topic, [decoder |-> decoder, bytes |-> payload]) }

\* a collaborator decoder applied to the payload, then the emission of
\* the decoded value
DecodeAndEmit(decoder, topic, payload) ==
    DecoderRaises
    \cup Emit(topic, [decoder |-> decoder, bytes |-> payload])

\* Conversion.uint8_array_to_address: "" (here <<>>) unless six bytes
uint8_array_to_address(payload) ==
    IF Len(payload) = 6
    THEN [i \in 1..6 |-> payload[7 - i]]
    ELSE <<>>

\* the bytes of the payload below 128, lines 310-313
AsciiOnly(payload) == SelectSeq(payload, LAMBDA b : b < 128)

\* _handleUartMessage, lines 87-325
HandleOpCode(opCode, payload) ==
    LET T == UartRxType IN
    CASE opCode = T.HELLO
           -> DecodeAndEmit("UartCrownstoneHelloPacket", "UartTopics.hello",
                            payload)
      [] opCode \in {T.SESSION_NONCE, T.HEARTBEAT, T.STATUS} -> Silent
      [] opCode = T.RESULT_PACKET
           -> DecodeAndEmit("ResultPacket", "SystemTopics.resultPacket",
                            payload)
      [] opCode \in {T.ERR_REPLY_PARSING_FAILED, T.ERR_REPLY_STATUS,
                     T.ERR_REPLY_SESSION_NONCE_MISSING,
                     T.ERR_REPLY_DECRYPTION_FAILED} -> Silent
      [] 9900 < opCode /\ opCode < 10000 -> Silent
      [] opCode = T.UART_MESSAGE
           -> Emit("UartTopics.uartMessage",
                   [string |-> payload, data |-> payload])
      [] opCode = T.SESSION_NONCE_MISSING -> Silent
      [] opCode = T.OWN_SERVICE_DATA
           -> DecodeAndEmit("ServiceData", "DevTopics.newServiceData",
                            payload)
      [] opCode \in {T.PRESENCE_CHANGE, T.FACTORY_RESET, T.BOOTED,
                     T.HUB_DATA} -> Silent
      [] opCode = T.MESH_SERVICE_DATA
           -> DecoderRaises
              \cup (IF Len(payload) >= 1
                    THEN Emit("SystemTopics.stateUpdate",
                              <<payload[1], [decoder |-> "parseOpcode7",
                                             bytes |-> payload]>>)
                    ELSE Silent)
      [] opCode \in {T.EXTERNAL_STATE_PART_0, T.EXTERNAL_STATE_PART_1}
           -> Silent
      [] opCode = T.MESH_RESULT
           -> IF Len(payload) > 1
              THEN DecoderRaises
                   \cup Emit("SystemTopics.meshResultPacket",
                             <<payload[1],
                               [decoder |-> "ResultPacket",
                                bytes |-> SubSeq(payload, 2, Len(payload))]>>)
              ELSE Silent
      [] opCode = T.MESH_ACK_ALL_RESULT
           -> DecodeAndEmit("ResultPacket",
                            "SystemTopics.meshResultFinalPacket",
                            payload)
      [] opCode = T.RSSI_PING_MESSAGE -> Silent
      [] opCode = T.LOG
           -> DecodeAndEmit("UartLogPacket", "UartTopics.log", payload)
      [] opCode = T.LOG_ARRAY
           -> DecodeAndEmit("UartLogArrayPacket", "UartTopics.logArray",
                            payload)
      [] opCode = T.ASSET_MAC_RSSI_REPORT
           -> DecodeAndEmit("AssetMacReport",
                            "UartTopics.assetTrackingReport", payload)
      [] opCode = T.ASSET_ID_RSSI_REPORT
           -> DecodeAndEmit("AssetIdReport", "UartTopics.assetIdReport",
                            payload)
      [] opCode \in {T.INTERNAL_EVENT, T.MESH_CMD_TIME,
                     T.MESH_PROFILE_LOCATION, T.MESH_SET_BEHAVIOUR_SETTINGS,
                     T.MESH_TRACKED_DEVICE_REGISTER,
                     T.MESH_TRACKED_DEVICE_TOKEN, T.MESH_SYNC_REQUEST,
                     T.MESH_TRACKED_DEVICE_HEARTBEAT} -> Silent
      [] opCode \in {T.ADVERTISING_ENABLED, T.MESH_ENABLED} -> Silent
      [] opCode = T.CROWNSTONE_ID
           -> DecodeAndEmit("Conversion.int8_to_uint8",
                            "DevTopics.ownCrownstoneId", payload)
      [] opCode = T.MAC_ADDRESS
           -> IF uint8_array_to_address(payload) # <<>>
              THEN Emit("DevTopics.ownMacAddress",
                        uint8_array_to_address(payload))
              ELSE Silent
      [] opCode = T.ADC_CONFIG
           -> DecodeAndEmit("AdcConfigPacket", "DevTopics.newAdcConfigPacket",
                            payload)
      [] opCode = T.ADC_RESTART
           -> Emit("DevTopics.adcRestarted", <<>>)
      [] opCode = T.POWER_LOG_CURRENT
           -> DecodeAndEmit("CurrentSamplesPacket", "DevTopics.newCurrentData",
                            payload)
      [] opCode = T.POWER_LOG_VOLTAGE
           -> DecodeAndEmit("VoltageSamplesPacket", "DevTopics.newVoltageData",
                            payload)
      [] opCode = T.POWER_LOG_FILTERED_CURRENT
           -> DecodeAndEmit("CurrentSamplesPacket",
                            "DevTopics.newFilteredCurrentData", payload)
      [] opCode = T.POWER_LOG_FILTERED_VOLTAGE
           -> DecodeAndEmit("VoltageSamplesPacket",
                            "DevTopics.newFilteredVoltageData", payload)
      [] opCode = T.POWER_LOG_POWER
           -> DecodeAndEmit("PowerCalculationPacket",
                            "DevTopics.newCalculatedPowerData", payload)
      [] opCode = T.ASCII_LOG
           -> {Outcome(<<>>, "none", AsciiOnly(payload))}
      [] opCode = T.FIRMWARESTATE -> Silent
      [] OTHER -> Silent

\* handleUartMessage, lines 71-78: a CrownstoneException is caught and
\* logged, any other exception leaves the handler
handleUartMessage(message) ==
    { IF r.exc = "CrownstoneException"
      THEN [r EXCEPT !.exc = "none", !.caught = "CrownstoneException"]
      ELSE r : r \in HandleOpCode(message.opCode, message.payload) }

\* a variant of parse: the major version is not compared
parseNoVersionCheck(wrapperPacket) ==
    IF ~wrapperPacket.isWrapper
    THEN {Outcome(<<>>, "TypeError", <<>>)}
    ELSE IF wrapperPacket.messageType = UartMessageType.UART_MESSAGE
    THEN LET uartMsg == UartMessagePacket_parse(wrapperPacket.payload) IN
         IF uartMsg.ok
         THEN LET message == [opCode |-> uartMsg.opCode,
                              payload |-> uartMsg.payload]
              IN  { [h EXCEPT !.emits =
                               <<[topic |-> "SystemTopics.uartNewMessage",
                                  value |-> message]>> \o h.emits] :
                      h \in handleUartMessage(message) }
         ELSE Silent
    ELSE IF wrapperPacket.messageType
                = UartMessageType.ENCRYPTED_UART_MESSAGE
    THEN Silent
    ELSE Silent

\* a variant of parse: a value of another type is dropped like an unknown
\* message type
parseIgnoresType(wrapperPacket) ==
    IF ~wrapperPacket.isWrapper
    THEN Silent
    ELSE IF wrapperPacket.protocolMajor # PROTOCOL_MAJOR
    THEN Silent
    ELSE IF wrapperPacket.messageType = UartMessageType.UART_MESSAGE
    THEN LET uartMsg == UartMessagePacket_parse(wrapperPacket.payload) IN
         IF uartMsg.ok
         THEN LET message == [opCode |-> uartMsg.opCode,
                              payload |-> uartMsg.payload]
              IN  { [h EXCEPT !.emits =
                               <<[topic |-> "SystemTopics.uartNewMessage",
                                  value |-> message]>> \o h.emits] :
                      h \in handleUartMessage(message) }
         ELSE Silent
    ELSE IF wrapperPacket.messageType
                = UartMessageType.ENCRYPTED_UART_MESSAGE
    THEN Silent
    ELSE Silent

\* parse, lines 52-69.  The parser's own handleUartMessage is subscribed
\* to SystemTopics.uartNewMessage (line 38) and the bus calls it during
\* the emission of line 63.
parse(wrapperPacket) ==
    IF ~wrapperPacket.isWrapper
    THEN {Outcome(<<>>, "TypeError", <<>>)}
    ELSE IF wrapperPacket.protocolMajor # PROTOCOL_MAJOR
    THEN Silent
    ELSE IF wrapperPacket.messageType = UartMessageType.UART_MESSAGE
    THEN LET uartMsg == UartMessagePacket_parse(wrapperPacket.payload) IN
         IF uartMsg.ok
         THEN LET message == [opCode |-> uartMsg.opCode,
                              payload |-> uartMsg.payload]
              IN  { [h EXCEPT !.emits =
                               <<[topic |-> "SystemTopics.uartNewMessage",
                                  value |-> message]>> \o h.emits] :
                      h \in handleUartMessage(message) }
         ELSE Silent
    ELSE IF wrapperPacket.messageType
                = UartMessageType.ENCRYPTED_UART_MESSAGE
    THEN Silent
    ELSE Silent

\* the topics of a list of events, tagged with the frame's number
Tagged(emits, n) ==
    [i \in 1..Len(emits) |-> [frame |-> n, topic |-> emits[i].topic]]

\* the transport emits SystemTopics.uartNewPackage and the bus calls parse
ParseFrame ==
    /\ frameCount < MaxFrames
    /\ \E f \in Frames :
        \E r \in parse(f) :
          /\ frameCount' = frameCount + 1
          /\ bus' = bus \o Tagged(r.emits, frameCount + 1)
          /\ lastFrame' = f
          /\ lastEmitted' = r.emits
          /\ lastRaised' = r.exc
          /\ lastCaught' = r.caught
          /\ lastPrinted' = r.printed
    /\ UNCHANGED mvars

\* the parser alone, beside a manager that was constructed and not used
ParserStart ==
    /\ ManagerInit
    /\ availablePorts = <<>>
    /\ ParserInit

ParserNext == ParseFrame

ParserSpec == ParserStart /\ [][ParserNext]_vars

----------------------------------------------------------------------------
(* Claims about UartManager *)

\* the devices of a candidate list
Range(f) == { f[i] : i \in 1..Len(f) }

\* C1: at most one transport that was started and is neither stopped nor
\* lost exists at any time; setupConnection never starts a bridge while an
\* earlier one is still live.
C1_OneLiveTransport == Cardinality(Live(bridges)) <= 1

\* a second bridge was started after the first one's handshake failed
C1_Witness ==
    /\ lastEvent = "stopDone"
    /\ Len(bridges) >= 2
    /\ Live(bridges) = {Len(bridges)}

\* C2 as stated: ready turns true only right after a successful handshake
\* on the current bridge, whatever port argument initialize was given.
C2_ReadyOnlyAfterHandshake ==
    [][(~ready /\ ready') => bridges'[uartBridge'].hs = "ok"]_vars

\* C2 amended: ready turns true only right after a successful handshake on
\* the current bridge, or when initialize was given a port found among the
\* candidates, in which case the first connection is set up with the
\* handshake skipped; with no port or a port not among the candidates the
\* handshake is always needed.
C2_ReadyAfterHandshakeOrSkip ==
    [][(~ready /\ ready') =>
          \/ /\ pc = "handshake"
             /\ bridges'[uartBridge'].hs = "ok"
          \/ /\ pc = "starting"
             /\ ~setupHandshake
             /\ initArg.port # None
             /\ initArg.port \in Range(availablePorts)
             /\ port' = initArg.port
             /\ Len(bridges) = 1]_vars

\* ready was set after the handshake on the current bridge succeeded
C2_Witness ==
    /\ ready
    /\ lastEvent = "handshake"
    /\ uartBridge # None
    /\ bridges[uartBridge].hs = "ok"
    /\ initArg.port = None

\* C3: once stop() has been called, no reset() scheduled by the liveness
\* watch is executed.
C3_NoResetAfterStop ==
    [][~running => ~(resetTask = "scheduled" /\ resetTask' = "none")]_vars

\* the fields of the supervisor
Fields ==
    <<port, baudRate, running, availablePorts, attemptingIndex, uartBridge,
      ready, bridges>>

\* C4: when the supervisor is Ready and the liveness watch resolves, then
\* if running is true a reset() is scheduled, and when it runs the
\* supervisor leaves Ready, drops the transport and the port, re-enumerates
\* the candidates with the cursor at 0 and re-enters initialize; if running
\* is false no field of the supervisor changes and no reset is scheduled.
C4_LivenessResolution ==
    /\ [][(tracker = "waiting" /\ tracker' = "none" /\ ready) =>
             /\ UNCHANGED Fields
             /\ resetTask' = IF running THEN "scheduled" ELSE "none"]_vars
    /\ [][(resetTask = "scheduled" /\ resetTask' = "none") =>
             /\ ~ready'
             /\ port' = None
             /\ attemptingIndex' = 0
             /\ availablePorts' \in comports
             /\ uartBridge # None /\ bridges[uartBridge].st # "started"
             /\ \/ pc' = "sleeping" /\ uartBridge' = None
                \/ /\ pc' = "starting"
                   /\ uartBridge' = Len(bridges')
                   /\ bridges'[uartBridge'] =
                          NewBridge(availablePorts'[1], DefaultBaudRate)]_vars
    /\ (resetTask = "scheduled") ~> (lastEvent = "trackReset")

\* the reset the liveness watch scheduled has run
C4_Witness ==
    /\ lastEvent = "trackReset"
    /\ running
    /\ ~ready
    /\ port = None
    /\ attemptingIndex = 0

\* C5: whenever initialize() finds no active port and the cursor at or past
\* the end of the candidate list (an empty list included), it suspends in
\* the backoff delay without raising; the only step out of the delay is
\* the reset, which re-enumerates the candidates, puts the cursor at 0,
\* clears transport and port and re-enters initialize; ready stays false
\* from the exhaustion to the re-enumeration.
C5_ExhaustionBacksOff ==
    /\ [][(lastEvent' \in {"stopDone", "backoffReset", "trackReset"}
            \/ (lastEvent' = "initialize" /\ initArg'.port = None))
          /\ port' = None
          /\ attemptingIndex' >= Len(availablePorts')
          => pc' = "sleeping" /\ ~ready' /\ ~raised']_vars
    /\ [][pc = "sleeping" =>
             \/ /\ lastEvent' \in {"stop", "stopAgain", "linkLost"}
                /\ pc' = "sleeping"
                /\ ~ready' /\ ~raised'
                /\ UNCHANGED <<availablePorts, attemptingIndex, port>>
             \/ /\ lastEvent' = "backoffReset"
                /\ availablePorts' \in comports
                /\ port' = None
                /\ attemptingIndex' = 0
                /\ ~ready' /\ ~raised'
                /\ \/ pc' = "sleeping" /\ uartBridge' = None
                   \/ pc' = "starting" /\ uartBridge' = Len(bridges')]_vars

\* initialize() found an empty candidate list, waited and re-enumerated
C5_Witness ==
    /\ lastEvent = "backoffReset"
    /\ cycle = "reset"
    /\ pc = "sleeping"
    /\ availablePorts = <<>>

\* C6: when a call chain of initialize() without a port ends with a
\* successful handshake, the transports of the cycle were opened for the
\* candidates 0..k in order, the handshakes on 0..k-1 failed and their
\* transports are stopped, the supervisor is Ready, the active port is
\* candidate k's device and the cursor is k.
C6_FirstGoodCandidate ==
    (pc = "done" /\ lastEvent = "handshake" /\ cycle \in {"noport", "reset"})
    => LET k == Len(bridges) - 1 IN
       /\ k >= 0 /\ k < Len(availablePorts)
       /\ \A i \in 1..(k + 1) : bridges[i].port = availablePorts[i]
       /\ \A i \in 1..k : bridges[i].hs = "failed" /\ bridges[i].st = "stopped"
       /\ bridges[k + 1].hs = "ok"
       /\ uartBridge = k + 1
       /\ ready
       /\ port = availablePorts[k + 1]
       /\ attemptingIndex = k

\* three candidates, the handshake failed on 0 and 1 and succeeded on 2
C6_Witness ==
    /\ pc = "done" /\ lastEvent = "handshake" /\ cycle = "noport"
    /\ Len(availablePorts) = 3
    /\ Len(bridges) = 3
    /\ bridges[1].hs = "failed" /\ bridges[2].hs = "failed"
    /\ ready /\ attemptingIndex = 2
    /\ port = availablePorts[3]

\* C7: a stop() right after a stop() changes nothing observable (running,
\* ready, port, the active transport and its state), and no stop() raises,
\* with or without an active transport.
C7_StopIdempotent ==
    /\ [][(lastEvent \in {"stop", "stopAgain"} /\ lastEvent' = "stopAgain")
          => UNCHANGED <<running, ready, port, uartBridge, bridges, raised>>
         ]_vars
    /\ [][lastEvent' \in {"stop", "stopAgain"} =>
             /\ ~running'
             /\ raised' = raised
             /\ uartBridge' = uartBridge
             /\ uartBridge # None => bridges'[uartBridge].st = "stopped"]_vars

\* stop() was called a second time, with no transport active
C7_Witness ==
    /\ lastEvent = "stopAgain"
    /\ uartBridge = None
    /\ ~running
    /\ ~raised

\* a step of the initialize/reset chain or of the liveness watch
RetryStep ==
    \/ Started
    \/ HandshakeDone
    \/ StopDone
    \/ SleepDone
    \/ TrackStart
    \/ TrackResume
    \/ ResetRun

\* the handshake on device d returns success whenever it returns
HandshakeSucceedsOn(d) ==
    (pc = "handshake" /\ pc' # "handshake" /\ setupPort = d) => ready'

----------------------------------------------------------------------------
(* Claims about UartParser *)

\* the latest value delivered is a wrapper that parse hands to the handler
Handled(f) ==
    /\ f.isWrapper
    /\ f.protocolMajor = PROTOCOL_MAJOR
    /\ f.messageType = UartMessageType.UART_MESSAGE
    /\ UartMessagePacket_parse(f.payload).ok

\* the Message inside a handled wrapper
MessageOf(f) ==
    [opCode |-> UartMessagePacket_parse(f.payload).opCode,
     payload |-> UartMessagePacket_parse(f.payload).payload]

\* the bus entries of the latest value delivered
BusOfLast == SelectSeq(bus, LAMBDA e : e.frame = frameCount)

\* C9: a frame whose major version is not the supported one, and a frame of
\* the encrypted message type whatever its payload, leads to no new-message
\* event and no typed event; a new-message event is emitted only for a
\* frame of the supported major version and the plain message type whose
\* payload decodes into a Message, and it carries that Message.
C9_DroppedFramesEmitNothing ==
    /\ (/\ lastFrame.isWrapper
        /\ \/ lastFrame.protocolMajor # PROTOCOL_MAJOR
           \/ lastFrame.messageType = UartMessageType.ENCRYPTED_UART_MESSAGE)
       => (lastEmitted = <<>> /\ BusOfLast = <<>>)
    /\ \A i \in DOMAIN lastEmitted :
         lastEmitted[i].topic = "SystemTopics.uartNewMessage"
         => (Handled(lastFrame) /\ lastEmitted[i].value = MessageOf(lastFrame))
    /\ \A i \in DOMAIN bus :
         (bus[i].frame = frameCount
          /\ bus[i].topic = "SystemTopics.uartNewMessage")
         => Handled(lastFrame)

\* C9: after a frame that led to two events, an encrypted frame of the
\* supported version that carries a well-formed HELLO message is dropped
C9_Witness ==
    /\ frameCount = 2
    /\ Len(bus) = 2
    /\ bus[1].frame = 1
    /\ lastFrame.isWrapper
    /\ lastFrame.protocolMajor = PROTOCOL_MAJOR
    /\ lastFrame.messageType = UartMessageType.ENCRYPTED_UART_MESSAGE
    /\ lastFrame.payload = Encode(UartRxType.HELLO, <<>>)
    /\ lastEmitted = <<>>
    /\ lastRaised = "none"

\* the opcode is one of the error replies: a named one or inside the range
IsErrorReply(opCode) ==
    \/ opCode \in NamedErrorReplies
    \/ (9900 < opCode /\ opCode < 10000)

\* C10: handling a message whose opcode is outside the known codes, or is
\* an error reply (one of the four named codes or any value with
\* 9900 < opCode < 10000), emits no event and raises nothing; in both
\* cases the bus carries for the frame the new-message event of parse and
\* nothing else.
C10_UnknownAndErrorReplySilent ==
    (/\ Handled(lastFrame)
     /\ \/ MessageOf(lastFrame).opCode \notin KnownOpCodes
        \/ IsErrorReply(MessageOf(lastFrame).opCode))
    => /\ lastEmitted = <<[topic |-> "SystemTopics.uartNewMessage",
                           value |-> MessageOf(lastFrame)]>>
       /\ BusOfLast = <<[frame |-> frameCount,
                         topic |-> "SystemTopics.uartNewMessage"]>>
       /\ lastRaised = "none"
       /\ lastPrinted = <<>>

\* C10: two frames each left only the new-message event on the bus; the
\* latest carries the opcode 9950, an error reply that has no name
C10_Witness ==
    /\ frameCount = 2
    /\ Handled(lastFrame)
    /\ MessageOf(lastFrame).opCode = 9950
    /\ MessageOf(lastFrame).opCode \notin KnownOpCodes
    /\ MessageOf(lastFrame).payload = <<7, 200>>
    /\ bus = <<[frame |-> 1, topic |-> "SystemTopics.uartNewMessage"],
               [frame |-> 2, topic |-> "SystemTopics.uartNewMessage"]>>
    /\ lastRaised = "none"

\* C11: every failure raised while a message is dispatched, by a decoder
\* of the payload or by a subscriber of the emitted event, is caught inside
\* handleUartMessage: nothing is raised to the caller of a handled frame.
C11_FailuresCaught ==
    Handled(lastFrame) => lastRaised = "none"

\* the bus entries of frame n that are new-message events, and the others
NewMessagesOf(n) ==
    { i \in DOMAIN bus : bus[i].frame = n
                         /\ bus[i].topic = "SystemTopics.uartNewMessage" }
TypedOf(n) ==
    { i \in DOMAIN bus : bus[i].frame = n
                         /\ bus[i].topic # "SystemTopics.uartNewMessage" }

\* C12: each frame produces at most one new-message event; the events on
\* the bus are in the arrival order of their frames; each message produces
\* at most one typed event, emitted right after the new-message event of
\* its frame and so before the new-message event of every later frame.
C12_FrameOrderPreserved ==
    /\ \A i, j \in DOMAIN bus : i < j => bus[i].frame <= bus[j].frame
    /\ \A n \in 1..frameCount :
         /\ Cardinality(NewMessagesOf(n)) <= 1
         /\ Cardinality(TypedOf(n)) <= 1
         /\ \A j \in TypedOf(n) : j - 1 \in NewMessagesOf(n)
    /\ \A i \in DOMAIN bus : bus[i].frame \in 1..frameCount

\* C12: two frames were delivered and each led to a new-message event
\* followed by its typed event
C12_Witness ==
    /\ frameCount = 2
    /\ Len(bus) = 4
    /\ NewMessagesOf(1) = {1} /\ TypedOf(1) = {2}
    /\ NewMessagesOf(2) = {3} /\ TypedOf(2) = {4}
    /\ bus[2].topic = "UartTopics.hello"
    /\ bus[4].topic = "SystemTopics.resultPacket"

\* the typed events of the latest call of parse
TypedLast ==
    SelectSeq(lastEmitted,
              LAMBDA e : e.topic # "SystemTopics.uartNewMessage")

\* the topic table: for each opcode that has a row, the topic of the event
\* and the decoder whose value the event carries
TopicTable ==
    LET T == UartRxType
        Row(t, d) == [topic |-> t, decoder |-> d]
    IN
    (T.HELLO :> Row("UartTopics.hello", "UartCrownstoneHelloPacket"))
    @@ (T.RESULT_PACKET :> Row("SystemTopics.resultPacket", "ResultPacket"))
    @@ (T.UART_MESSAGE :> Row("UartTopics.uartMessage", "text"))
    @@ (T.OWN_SERVICE_DATA :> Row("DevTopics.newServiceData", "ServiceData"))
    @@ (T.MESH_SERVICE_DATA :> Row("SystemTopics.stateUpdate", "parseOpcode7"))
    @@ (T.MESH_RESULT :> Row("SystemTopics.meshResultPacket", "ResultPacket"))
    @@ (T.MESH_ACK_ALL_RESULT
          :> Row("SystemTopics.meshResultFinalPacket", "ResultPacket"))
    @@ (T.LOG :> Row("UartTopics.log", "UartLogPacket"))
    @@ (T.LOG_ARRAY :> Row("UartTopics.logArray", "UartLogArrayPacket"))
    @@ (T.ASSET_MAC_RSSI_REPORT
          :> Row("UartTopics.assetTrackingReport", "AssetMacReport"))
    @@ (T.ASSET_ID_RSSI_REPORT
          :> Row("UartTopics.assetIdReport", "AssetIdReport"))
    @@ (T.CROWNSTONE_ID
          :> Row("DevTopics.ownCrownstoneId", "Conversion.int8_to_uint8"))
    @@ (T.MAC_ADDRESS :> Row("DevTopics.ownMacAddress", "address"))
    @@ (T.ADC_CONFIG :> Row("DevTopics.newAdcConfigPacket", "AdcConfigPacket"))
    @@ (T.ADC_RESTART :> Row("DevTopics.adcRestarted", "none"))
    @@ (T.POWER_LOG_CURRENT
          :> Row("DevTopics.newCurrentData", "CurrentSamplesPacket"))
    @@ (T.POWER_LOG_VOLTAGE
          :> Row("DevTopics.newVoltageData", "VoltageSamplesPacket"))
    @@ (T.POWER_LOG_FILTERED_CURRENT
          :> Row("DevTopics.newFilteredCurrentData", "CurrentSamplesPacket"))
    @@ (T.POWER_LOG_FILTERED_VOLTAGE
          :> Row("DevTopics.newFilteredVoltageData", "VoltageSamplesPacket"))
    @@ (T.POWER_LOG_POWER
          :> Row("DevTopics.newCalculatedPowerData", "PowerCalculationPacket"))

\* the value the table's event carries for a message
TableValue(opCode, payload) ==
    LET T == UartRxType
        d == TopicTable[opCode].decoder
    IN
    CASE opCode = T.UART_MESSAGE -> [string |-> payload, data |-> payload]
      [] opCode = T.ADC_RESTART -> <<>>
      [] opCode = T.MAC_ADDRESS -> [i \in 1..6 |-> payload[7 - i]]
      [] opCode = T.MESH_RESULT
           -> <<payload[1],
                [decoder |-> d, bytes |-> SubSeq(payload, 2, Len(payload))]>>
      [] opCode = T.MESH_SERVICE_DATA
           -> <<payload[1], [decoder |-> d, bytes |-> payload]>>
      [] OTHER -> [decoder |-> d, bytes |-> payload]

\* the payload is one the handler's branch for the opcode emits for
Emittable(opCode, payload) ==
    LET T == UartRxType IN
    CASE opCode = T.MESH_RESULT -> Len(payload) > 1
      [] opCode = T.MESH_SERVICE_DATA -> Len(payload) >= 1
      [] opCode = T.MAC_ADDRESS -> Len(payload) = 6
      [] OTHER -> TRUE

\* C13 as stated: a valid frame carrying a known opcode yields exactly
\* one typed emission, on the table's topic for the opcode, with the
\* decoded value of the raw bytes.
C13_KnownOpcodeOneEmission ==
    (Handled(lastFrame) /\ MessageOf(lastFrame).opCode \in KnownOpCodes)
    => /\ MessageOf(lastFrame).opCode \in DOMAIN TopicTable
       /\ TypedLast =
            <<[topic |-> TopicTable[MessageOf(lastFrame).opCode].topic,
               value |-> TableValue(MessageOf(lastFrame).opCode,
                                    MessageOf(lastFrame).payload)]>>

\* C13 amended: a valid frame carrying an opcode that has a row in the
\* topic table yields at most one typed emission, on the row's topic with
\* the decoded value of the raw bytes, and exactly one when no failure was
\* raised or caught and the payload is one the branch emits for (MESH_RESULT
\* longer than one byte, MESH_SERVICE_DATA with a crownstoneId, MAC_ADDRESS
\* a valid address); a known opcode without a row, and a payload the branch
\* does not emit for, yield no typed emission.
C13_TableOpcodeRoundTrip ==
    (Handled(lastFrame) /\ MessageOf(lastFrame).opCode \in KnownOpCodes)
    => LET op == MessageOf(lastFrame).opCode
           payload == MessageOf(lastFrame).payload
       IN  IF op \in DOMAIN TopicTable /\ Emittable(op, payload)
           THEN /\ TypedLast \in
                     {<<>>, <<[topic |-> TopicTable[op].topic,
                               value |-> TableValue(op, payload)]>>}
                /\ (lastRaised = "none" /\ lastCaught = "none")
                   => TypedLast # <<>>
           ELSE TypedLast = <<>>

\* C13: CROWNSTONE_ID with one byte above the signed range in its payload
\* was handled without a failure and the own-id event carries the decoded
\* value
C13_Witness ==
    /\ Handled(lastFrame)
    /\ MessageOf(lastFrame) = [opCode |-> UartRxType.CROWNSTONE_ID,
                               payload |-> <<7, 200>>]
    /\ lastRaised = "none"
    /\ lastCaught = "none"
    /\ Len(TypedLast) = 1
    /\ TypedLast[1].topic = "DevTopics.ownCrownstoneId"

\* C14: parse called with a value that is not a UartWrapperPacket raises a
\* TypeError to its caller and emits no event on any topic.
C14_TypeErrorBeforeAnyEvent ==
    (frameCount > 0 /\ ~lastFrame.isWrapper)
    => /\ lastRaised = "TypeError"
       /\ lastCaught = "none"
       /\ lastEmitted = <<>>
       /\ BusOfLast = <<>>
       /\ lastPrinted = <<>>

\* C14: after a frame that led to two events, a value of another type was
\* given to parse
C14_Witness ==
    /\ frameCount = 2
    /\ Len(bus) = 2
    /\ ~lastFrame.isWrapper
    /\ lastRaised = "TypeError"

----------------------------------------------------------------------------
(* Further claims about UartManager *)

\* the steps in which reset() runs and re-enumerates the candidates
ResetEvents == {"backoffReset", "trackReset"}

InitializeEvents == {"initialize", "stopDone"} \cup ResetEvents

\* after the step a new bridge to device d at the manager's baud rate has
\* just been constructed and started, and it is the only bridge added
OpensOnly(d) ==
    /\ pc' = "starting"
    /\ uartBridge' = Len(bridges')
    /\ bridges'[uartBridge'] = NewBridge(d, baudRate')
    /\ setupPort' = d
    /\ Cardinality(Live(bridges')) <= Cardinality(Live(bridges)) + 1
    /\ Len(bridges') <= Len(bridges) + 1

\* C16: initialize(port) with a port not among the candidates opens a
\* bridge to exactly that port, with the handshake requested, and leaves
\* the cursor; initialize(port) with the port of candidate i sets the
\* cursor to i and opens a bridge to exactly that candidate; initialize()
\* without a port opens a bridge to the candidate at the cursor (or backs
\* off when the cursor is past the end).  A requested handshake is always
\* performed before Ready; a bridge opened without it is the only attempt.
C16_InitializeVariants ==
    /\ [][(lastEvent' \in InitializeEvents /\ mvars' # mvars)
          => LET p == initArg'.port IN
             IF p = None
             THEN IF attemptingIndex' < Len(availablePorts')
                  THEN /\ OpensOnly(availablePorts'[attemptingIndex' + 1])
                       /\ setupHandshake'
                  ELSE pc' = "sleeping" /\ Len(bridges') <= Len(bridges)
             ELSE IF p \in Range(availablePorts)
                  THEN /\ attemptingIndex' < Len(availablePorts)
                       /\ availablePorts[attemptingIndex' + 1] = p
                       /\ OpensOnly(p)
                  ELSE /\ OpensOnly(p)
                       /\ setupHandshake'
                       /\ attemptingIndex' = attemptingIndex]_vars
    /\ [][(lastEvent' = "started" /\ mvars' # mvars)
          => IF setupHandshake
             THEN pc' = "handshake" /\ ~ready' /\ port' = port
             ELSE /\ pc' = "done" /\ ready' /\ port' = setupPort
                  /\ bridges' = bridges]_vars
    /\ [](ready => \/ bridges[uartBridge].hs = "ok"
                   \/ (initArg.port # None /\ port = initArg.port))

\* C16: initialize(3) with candidates 1 and 2 only: the bridge to device 3
\* has started and its handshake is awaited
C16_Witness ==
    /\ initArg.port = 3
    /\ availablePorts = <<1, 2>>
    /\ cycle = "port"
    /\ pc = "handshake"
    /\ bridges = <<NewBridge(3, initArg.baud)>>
    /\ attemptingIndex = 0

\* C17: once stop() has been called, no step of the manager's own retry
\* loop (the retry after a failed handshake, the reset after the backoff,
\* the reset after a link loss) opens a new bridge, and ready never turns
\* true again.
C17_QuietAfterStop ==
    [][~running
       => /\ ~(/\ lastEvent' \in {"stopDone"} \cup ResetEvents
               /\ pc' = "starting")
          /\ (ready' => ready)]_vars

\* C18: the retry after a failed handshake, the reset after the backoff
\* and the reset after a link loss leave baudRate as the owner's call of
\* initialize set it, and the bridge they open has that baud rate.
C18_BaudRatePreserved ==
    [][lastEvent' \in {"stopDone"} \cup ResetEvents
       => /\ baudRate' = baudRate
          /\ pc' = "starting" => bridges'[uartBridge'].baud = baudRate]_vars

\* the devices of the bridges opened since the last enumeration, in order
Attempted == [i \in 1..Len(bridges) |-> bridges[i].port]

\* C19: when the backoff is taken, every enumerated candidate has been
\* attempted exactly once, in enumeration order, since the last
\* enumeration; in a cycle begun by initialize(port) the attempt on that
\* port comes first and the candidates follow.
C19_EveryCandidateOnce ==
    pc = "sleeping"
    => IF cycle = "port"
       THEN Len(Attempted) >= 1 /\ Tail(Attempted) = availablePorts
       ELSE Attempted = availablePorts

\* C20: whenever is_ready() is true the active port and the bridge are
\* not None, and once stop() has returned is_ready() is false.
C20_ReadyMeansUsable ==
    /\ is_ready(Self) => (port # None /\ uartBridge # None)
    /\ ~running => ~is_ready(Self)

====
